---- MODULE Spec2Model ----
(***************************************************************************)
(* images_to_video (src/video.py): an image sequence found in a directory  *)
(* is written, in sorted filename order, to a video file.                  *)
(*                                                                         *)
(* Strings are tuples of one-character strings, so that os.path.splitext,  *)
(* Path.suffix, str.lower and the string order of sorted() are computed    *)
(* the way Python computes them.  The decode facility (cv2.imread) and the *)
(* video sink (cv2.VideoWriter) are external: a decoded image is named by  *)
(* the file it was read from, and the output file's content is the list of *)
(* frames handed to VideoWriter.write.                                     *)
(***************************************************************************)
EXTENDS Integers, Sequences, FiniteSets, TLC

VARIABLES
    args,         \* the call's arguments: output_path, fps, codec
    fault,        \* the one input file (if any) that is unreadable or unwritable
    none_raises,  \* whether this build's VideoWriter.write raises on a None frame
    fs,           \* filesystem: input directory entries, sub-directories, output file
    fs0,          \* fs as it was when the current call started
    pc,           \* position of the call in images_to_video
    input_files,  \* local input_files (line 61)
    codec,        \* local codec after resolution (lines 71-76)
    fourcc,       \* local fourcc (line 78)
    idx,          \* number of frames the generator `frames` has produced (imread calls)
    f,            \* local f: the frame decoded last
    out,          \* the VideoWriter: state and the fourcc/fps it was opened with
    opens,        \* VideoWriter constructions in this call
    releases,     \* out.release() calls in this call
    error,        \* exception raised by the call, or NoError
    calls,        \* number of calls started so far
    prev          \* start filesystem and outcome of the previous call

vars == <<args, fault, none_raises, fs, fs0, pc, input_files, codec, fourcc, idx, f, out,
          opens, releases, error, calls, prev>>

----------------------------------------------------------------------------
(* Bounds *)

MaxFiles == 3
MaxCalls == 2

----------------------------------------------------------------------------
(* Characters and strings *)

UpperCase == <<"A","B","C","D","E","F","G","H","I","J","K","L","M",
               "N","O","P","Q","R","S","T","U","V","W","X","Y","Z">>
LowerCase == <<"a","b","c","d","e","f","g","h","i","j","k","l","m",
               "n","o","p","q","r","s","t","u","v","w","x","y","z">>
Digits == <<"0","1","2","3","4","5","6","7","8","9">>

IsUpper(c) == \E i \in 1..26 : UpperCase[i] = c
IsLower(c) == \E i \in 1..26 : LowerCase[i] = c
IsDigit(c) == \E i \in 1..10 : Digits[i] = c

Chars == {"."} \cup {Digits[i] : i \in 1..10}
             \cup {UpperCase[i] : i \in 1..26} \cup {LowerCase[i] : i \in 1..26}

\* ord(c) of the ASCII characters that occur in the names below.
OrdTable ==
    [c \in Chars |->
        IF c = "." THEN 46
        ELSE IF IsDigit(c) THEN 47 + (CHOOSE i \in 1..10 : Digits[i] = c)
        ELSE IF IsUpper(c) THEN 64 + (CHOOSE i \in 1..26 : UpperCase[i] = c)
        ELSE 96 + (CHOOSE i \in 1..26 : LowerCase[i] = c)]

Ord(c) == OrdTable[c]

\* c.lower() of one character
LowerTable ==
    [c \in Chars |->
        IF IsUpper(c) THEN LowerCase[CHOOSE i \in 1..26 : UpperCase[i] = c] ELSE c]

LowerChar(c) == LowerTable[c]

\* A variant of str.lower that leaves the string as it is.
LowerKeepCase(s) == s

\* str.lower()
Lower(s) == [i \in 1..Len(s) |-> LowerChar(s[i])]

\* s.rfind("."): the 1-based index of the last dot, 0 when there is none.
RFindDot(s) ==
    IF \E i \in 1..Len(s) : s[i] = "."
    THEN CHOOSE i \in 1..Len(s) : s[i] = "." /\ \A j \in (i+1)..Len(s) : s[j] # "."
    ELSE 0

\* os.path.splitext(f)[1] of a name without separators: the text from the
\* last dot on, unless only dots precede that dot.
SplitextExt(s) ==
    LET d == RFindDot(s) IN
    IF d > 0 /\ \E i \in 1..(d-1) : s[i] # "."
    THEN SubSeq(s, d, Len(s))
    ELSE <<>>

\* pathlib's PurePath.suffix of the final path component.
Suffix(s) ==
    LET d == RFindDot(s) IN
    IF 1 < d /\ d < Len(s) THEN SubSeq(s, d, Len(s)) ELSE <<>>

\* Python's str order: by code point, a proper prefix first.
RECURSIVE StrLess(_, _)
StrLess(a, b) ==
    IF b = <<>> THEN FALSE
    ELSE IF a = <<>> THEN TRUE
    ELSE IF Ord(Head(a)) # Ord(Head(b)) THEN Ord(Head(a)) < Ord(Head(b))
    ELSE StrLess(Tail(a), Tail(b))

RECURSIVE Insert(_, _)
Insert(x, s) ==
    IF s = <<>> THEN <<x>>
    ELSE IF StrLess(x, Head(s)) THEN <<x>> \o s
    ELSE <<Head(s)>> \o Insert(x, Tail(s))

RECURSIVE InsertionSort(_)
InsertionSort(s) == IF s = <<>> THEN <<>> ELSE Insert(Head(s), InsertionSort(Tail(s)))

\* A variant of sorted() that keeps the listing order.
SortedKeepOrder(listing) == listing

\* sorted(os.listdir(input_path))
Sorted(listing) == InsertionSort(listing)

RECURSIVE Perms(_)
Perms(S) ==
    IF S = {} THEN {<<>>}
    ELSE UNION {{<<x>> \o p : p \in Perms(S \ {x})} : x \in S}

\* os.listdir(input_path): the entries in an arbitrary order.
Listdir(dir) == Perms(dir)

----------------------------------------------------------------------------
(* Module constants of video.py *)

\* CV_IMAGE_FORMAT as the list literal evaluates: ".jp2" ".png" is one
\* string (adjacent literals concatenate), and "pgm", "ppm", "pxm", "pnm"
\* carry no dot.
CV_IMAGE_FORMAT == {
    <<".","b","m","p">>, <<".","d","i","b">>,
    <<".","j","p","e">>, <<".","j","p","e","g">>, <<".","j","p","g">>,
    <<".","j","p","2",".","p","n","g">>,
    <<".","w","e","b","p">>,
    <<".","p","b","m">>, <<"p","g","m">>, <<"p","p","m">>, <<"p","x","m">>,
    <<"p","n","m">>,
    <<".","p","f","m">>,
    <<".","s","r">>, <<".","r","a","s">>,
    <<".","t","i","f","f">>, <<".","t","i","f">>,
    <<".","e","x","r">>,
    <<".","h","d","r">>, <<".","p","i","c">>
}

\* DEFAULT_CODEC
DEFAULT_CODEC ==
    (<<".","a","v","i">> :> <<"d","i","v","x">>) @@
    (<<".","f","l","v">> :> <<"f","l","v","1">>) @@
    (<<".","m","k","v">> :> <<"f","m","p","4">>) @@
    (<<".","m","o","v">> :> <<"m","p","4","v">>) @@
    (<<".","m","p","4">> :> <<"m","p","4","v">>) @@
    (<<".","w","m","p">> :> <<"w","m","v","2">>)

----------------------------------------------------------------------------
(* The inputs: file names, output paths, codec arguments *)

a_png     == <<"a",".","p","n","g">>
b_bmp     == <<"b",".","b","m","p">>
c_jpg     == <<"c",".","j","p","g">>
IMG1_PNG  == <<"I","M","G","1",".","P","N","G">>
Z_JPG     == <<"Z",".","J","P","G">>
notes_txt == <<"n","o","t","e","s",".","t","x","t">>

\* Candidate entries of the input directory.
Names == {a_png, b_bmp, c_jpg, IMG1_PNG, Z_JPG, notes_txt}

out_MP4 == <<"o","u","t",".","M","P","4">>
out_xyz == <<"o","u","t",".","x","y","z">>
v_jpg   == <<"v",".","j","p","g">>

\* Final components of output_path; none of them names an input file.
OutNames == {
    <<"o","u","t","p","u","t",".","m","p","4">>,
    out_MP4,
    <<"o",".","A","v","i">>,
    <<"o",".","f","l","v">>,
    <<"o",".","M","K","V">>,
    <<"o",".","m","o","v">>,
    <<"o",".","w","m","p">>,
    out_xyz,
    <<"o","u","t">>,
    v_jpg
}

\* output_path's parent is "outside" the input directory (an existing
\* directory), the "input" directory itself, or the directory SubName
\* inside the input directory ("sub").
SubName == b_bmp

\* The output paths: every name outside the input directory, three of
\* them inside it and inside its sub-directory.
OutputPaths ==
    [parent : {"outside"}, name : OutNames]
        \cup [parent : {"input", "sub"}, name : {out_MP4, out_xyz, v_jpg}]

\* Python's None where a string or a frame is expected (no name, codec
\* argument or frame below is the empty tuple).
None == <<>>
XVID == <<"X","V","I","D">>
\* Codec arguments: absent or a 4-character code.
CodecArgs == {None, XVID}

FpsArgs == {30}

\* The calls: every output path with every codec argument, and one call
\* whose codec argument has not four characters.
CallArgs ==
    [output_path : OutputPaths, fps : FpsArgs, codec : CodecArgs]
        \cup [output_path : {[parent |-> "outside", name |-> out_xyz]},
              fps : FpsArgs, codec : {<<"a","b">>}]

NoFault == [file |-> None, kind |-> "none"]
\* kind "unreadable": cv2.imread returns None for the file;
\* kind "unwritable": VideoWriter.write raises on the file's frame.
FaultKinds == {"unreadable", "unwritable"}

NoFile == [exists |-> FALSE, frames |-> <<>>]
NoError == "NoError"
Terminal == {"finalized", "failed"}

----------------------------------------------------------------------------
(* External facilities *)

\* Whether output_path names an entry of the input directory.
OutputInInput == args.output_path.parent = "input"

\* cv2.imread(f"{input_path}/{f}"): None for a directory, for the video
\* file once VideoWriter has created it, and for an unreadable file; the
\* file's decoded image otherwise.
Imread(file) ==
    IF \/ file \in fs.subdirs
       \/ (OutputInInput /\ file = args.output_path.name /\ fs.video.exists)
       \/ (fault.file = file /\ fault.kind = "unreadable")
    THEN None
    ELSE <<"image", file>>

\* Whether out.write(frame) raises.  What write does with None depends on
\* the build: it raises, or it returns and the frame is counted as handed over.
WriteRaises(frame) ==
    IF frame = None THEN none_raises
    ELSE fault.file = frame[2] /\ fault.kind = "unwritable"

\* A variant of VideoWriter_fourcc that ignores its argument.
FourccDefault(c) == Ord("m") + Ord("p") * 256 + Ord("4") * 65536 + Ord("v") * 16777216

\* cv2.VideoWriter_fourcc(c1, c2, c3, c4)
VideoWriter_fourcc(c) ==
    Ord(c[1]) + Ord(c[2]) * 256 + Ord(c[3]) * 65536 + Ord(c[4]) * 16777216

----------------------------------------------------------------------------
(* The call *)

\* A variant of the filter that compares the extension as it is spelled.
KeepExact(file) == SplitextExt(file) \in CV_IMAGE_FORMAT

\* line 63: os.path.splitext(f)[1].lower() in CV_IMAGE_FORMAT
Keep(file) == Lower(SplitextExt(file)) \in CV_IMAGE_FORMAT

NoFourcc == -1
NoWriter == [state |-> "none", fourcc |-> NoFourcc, fps |-> 0]
NoOutcome == [result |-> "none", error |-> NoError, frames |-> <<>>]

Locals ==
    /\ pc = "list"
    /\ input_files = <<>>
    /\ codec = args.codec
    /\ fourcc = NoFourcc
    /\ idx = 0
    /\ f = None
    /\ out = NoWriter
    /\ opens = 0
    /\ releases = 0
    /\ error = NoError

Init ==
    /\ args \in CallArgs
    /\ none_raises \in BOOLEAN
    /\ \E dir \in {d \in SUBSET Names : Cardinality(d) <= MaxFiles} :
          /\ fs = [dir |-> dir, subdirs |-> {}, video |-> NoFile]
          /\ fault \in {NoFault} \cup [file : {d \in dir : Keep(d)}, kind : FaultKinds]
    /\ fs0 = fs
    /\ calls = 1
    /\ prev = [fs0 |-> fs, outcome |-> NoOutcome]
    /\ Locals

\* A variant of lines 61-64 that keeps every entry.
FilterNothing(listing) == Sorted(listing)

\* lines 61-64
FilterImages(listing) == SelectSeq(Sorted(listing), Keep)

ListFiles ==
    /\ pc = "list"
    /\ \E listing \in Listdir(fs.dir) :
          input_files' = FilterImages(listing)
    /\ pc' = "check"
    /\ UNCHANGED <<args, fault, none_raises, fs, fs0, codec, fourcc, idx, f, out, opens,
                   releases, error, calls, prev>>

\* A variant of lines 66-67 that runs after the output directory and file
\* were created.
CheckEmptyAfterCreate ==
    /\ pc = "check"
    /\ IF input_files = <<>>
       THEN /\ pc' = "failed"
            /\ error' = "FileNotFoundError"
            /\ fs' = [fs EXCEPT !.video = [exists |-> TRUE, frames |-> <<>>]]
       ELSE pc' = "codec" /\ error' = error /\ fs' = fs
    /\ UNCHANGED <<args, fault, none_raises, fs0, input_files, codec, fourcc, idx, f,
                   out, opens, releases, calls, prev>>

\* lines 66-67
CheckEmpty ==
    /\ pc = "check"
    /\ IF input_files = <<>>
       THEN pc' = "failed" /\ error' = "FileNotFoundError"
       ELSE pc' = "codec" /\ error' = error
    /\ UNCHANGED <<args, fault, none_raises, fs, fs0, input_files, codec, fourcc, idx, f,
                   out, opens, releases, calls, prev>>

\* A variant of lines 71-76 that falls back to "mp4v" for an unknown extension.
ResolveOrDefault(codec_arg, name) ==
    IF codec_arg # None THEN codec_arg
    ELSE LET extension == Suffix(name) IN
         IF Lower(extension) \in DOMAIN DEFAULT_CODEC
         THEN DEFAULT_CODEC[Lower(extension)]
         ELSE <<"m","p","4","v">>

\* A variant of lines 71-73 that looks the extension up first.
ResolveByExtension(codec_arg, name) ==
    LET extension == Suffix(name) IN
    IF Lower(extension) \in DOMAIN DEFAULT_CODEC
    THEN DEFAULT_CODEC[Lower(extension)]
    ELSE codec_arg

\* lines 71-73: the codec argument, or DEFAULT_CODEC.get(path.suffix.lower())
Resolve(codec_arg, name) ==
    IF codec_arg # None THEN codec_arg
    ELSE LET extension == Suffix(name) IN
         IF Lower(extension) \in DOMAIN DEFAULT_CODEC
         THEN DEFAULT_CODEC[Lower(extension)]
         ELSE None

\* lines 69-78
ResolveCodec ==
    /\ pc = "codec"
    /\ LET c == Resolve(codec, args.output_path.name) IN
       IF c = None
       THEN /\ pc' = "failed"
            /\ error' = "ValueError"
            /\ UNCHANGED <<codec, fourcc>>
       ELSE IF Len(c) # 4
       THEN \* VideoWriter_fourcc takes exactly four characters
            /\ pc' = "failed"
            /\ error' = "TypeError"
            /\ codec' = c
            /\ UNCHANGED fourcc
       ELSE /\ pc' = "first"
            /\ codec' = c
            /\ fourcc' = VideoWriter_fourcc(c)
            /\ UNCHANGED error
    /\ UNCHANGED <<args, fault, none_raises, fs, fs0, input_files, idx, f, out, opens,
                   releases, calls, prev>>

\* lines 80-84: the first frame is decoded and its shape is read
DecodeFirst ==
    /\ pc = "first"
    /\ f' = Imread(input_files[1])
    /\ idx' = 1
    /\ IF f' = None
       THEN pc' = "failed" /\ error' = "AttributeError"
       ELSE pc' = "open" /\ error' = error
    /\ UNCHANGED <<args, fault, none_raises, fs, fs0, input_files, codec, fourcc, out,
                   opens, releases, calls, prev>>

\* line 86: os.makedirs(path.parent, exist_ok=True) raises when the parent
\* exists and is no directory; otherwise the parent is a directory afterwards.
MakedirsRaises ==
    /\ args.output_path.parent = "sub"
    /\ SubName \in fs.dir \ fs.subdirs

AfterMakedirs ==
    IF args.output_path.parent = "sub"
    THEN [fs EXCEPT !.dir = @ \cup {SubName}, !.subdirs = @ \cup {SubName}]
    ELSE fs

\* A variant of line 87 that appends to a file that exists.
AfterCreateKeep(g) ==
    [g EXCEPT !.video = [exists |-> TRUE, frames |-> @.frames],
              !.dir = IF OutputInInput THEN @ \cup {args.output_path.name} ELSE @]

\* line 87: cv2.VideoWriter(output_path, ...) creates or overwrites the file.
AfterCreate(g) ==
    [g EXCEPT !.video = [exists |-> TRUE, frames |-> <<>>],
              !.dir = IF OutputInInput THEN @ \cup {args.output_path.name} ELSE @]

\* lines 86-87
OpenOutput ==
    /\ pc = "open"
    /\ IF MakedirsRaises
       THEN /\ pc' = "failed"
            /\ error' = "FileExistsError"
            /\ UNCHANGED <<fs, out, opens>>
       ELSE /\ fs' = AfterCreate(AfterMakedirs)
            /\ out' = [state |-> "open", fourcc |-> fourcc, fps |-> args.fps]
            /\ opens' = opens + 1
            /\ pc' = "write_first"
            /\ UNCHANGED error
    /\ UNCHANGED <<args, fault, none_raises, fs0, input_files, codec, fourcc, idx, f,
                   releases, calls, prev>>

\* out.write(frame): the frame is appended to the output file.
AfterWrite(frame) == [fs EXCEPT !.video.frames = Append(@, frame)]

\* line 89
WriteFirst ==
    /\ pc = "write_first"
    /\ IF WriteRaises(f)
       THEN pc' = "failed" /\ error' = "cv2.error" /\ UNCHANGED fs
       ELSE pc' = "loop" /\ fs' = AfterWrite(f) /\ UNCHANGED error
    /\ UNCHANGED <<args, fault, none_raises, fs0, input_files, codec, fourcc, idx, f, out,
                   opens, releases, calls, prev>>

\* lines 90-91: one iteration of the loop over the rest of `frames`, or
\* its end when the generator is exhausted
LoopStep ==
    /\ pc = "loop"
    /\ IF idx < Len(input_files)
       THEN /\ f' = Imread(input_files[idx + 1])
            /\ idx' = idx + 1
            /\ IF WriteRaises(f')
               THEN pc' = "failed" /\ error' = "cv2.error" /\ UNCHANGED fs
               ELSE pc' = "loop" /\ fs' = AfterWrite(f') /\ UNCHANGED error
       ELSE /\ pc' = "release"
            /\ UNCHANGED <<f, idx, fs, error>>
    /\ UNCHANGED <<args, fault, none_raises, fs0, input_files, codec, fourcc, out, opens,
                   releases, calls, prev>>

\* A variant of line 93 that returns without releasing the writer.
ReleaseSkipped ==
    /\ pc = "release"
    /\ pc' = "finalized"
    /\ UNCHANGED <<args, fault, none_raises, fs, fs0, input_files, codec, fourcc, idx, f,
                   out, opens, releases, error, calls, prev>>

\* line 93
Release ==
    /\ pc = "release"
    /\ out' = [out EXCEPT !.state = "released"]
    /\ releases' = releases + 1
    /\ pc' = "finalized"
    /\ UNCHANGED <<args, fault, none_raises, fs, fs0, input_files, codec, fourcc, idx, f,
                   opens, error, calls, prev>>

\* What a finished call produced: its error, or the frames of the output.
Outcome ==
    [result |-> pc, error |-> error,
     frames |-> IF pc = "finalized" THEN fs.video.frames ELSE <<>>]

\* The caller calls images_to_video again with the same arguments.
CallAgain ==
    /\ pc \in Terminal
    /\ calls < MaxCalls
    /\ calls' = calls + 1
    /\ prev' = [fs0 |-> fs0, outcome |-> Outcome]
    /\ fs0' = fs
    /\ pc' = "list"
    /\ input_files' = <<>>
    /\ codec' = args.codec
    /\ fourcc' = NoFourcc
    /\ idx' = 0
    /\ f' = None
    /\ out' = NoWriter
    /\ opens' = 0
    /\ releases' = 0
    /\ error' = NoError
    /\ UNCHANGED <<args, fault, none_raises, fs>>

Next ==
    \/ ListFiles
    \/ CheckEmpty
    \/ ResolveCodec
    \/ DecodeFirst
    \/ OpenOutput
    \/ WriteFirst
    \/ LoopStep
    \/ Release
    \/ CallAgain

Spec == Init /\ [][Next]_vars

----------------------------------------------------------------------------
(* Vocabulary of the properties *)

Range(seq) == {seq[i] : i \in 1..Len(seq)}

\* The entries of the input directory, as the call found it, that the
\* filter of line 63 keeps.
Recognized == {e \in fs0.dir : Lower(SplitextExt(e)) \in CV_IMAGE_FORMAT}

\* The listing and the emptiness check are behind the call.
PastCheck == pc \notin {"list", "check"}
\* The codec resolution is behind the call as well, and it did not raise.
PastCodec == pc \in {"first", "open", "write_first", "loop", "release", "finalized"}
              \/ (pc = "failed" /\ error \in {"AttributeError", "FileExistsError", "cv2.error"})

OutputName == args.output_path.name

\* Two strings that differ at most in the case of their letters.
SameButCase(a, b) ==
    /\ Len(a) = Len(b)
    /\ \A i \in 1..Len(a) :
          \/ a[i] = b[i]
          \/ (IsUpper(a[i]) /\ IsLower(b[i]) /\ Ord(b[i]) - Ord(a[i]) = 32)
          \/ (IsLower(a[i]) /\ IsUpper(b[i]) /\ Ord(a[i]) - Ord(b[i]) = 32)

\* The extension of the output path is one of the codec table, in any case.
MappedExtension == \E e \in DOMAIN DEFAULT_CODEC : SameButCase(Suffix(OutputName), e)

\* The image formats the Image Extension Set is documented to hold.
ImageExtensionSet == {
    <<".","b","m","p">>, <<".","d","i","b">>,
    <<".","j","p","e">>, <<".","j","p","e","g">>, <<".","j","p","g">>,
    <<".","j","p","2">>,
    <<".","p","n","g">>,
    <<".","w","e","b","p">>,
    <<".","p","b","m">>, <<".","p","g","m">>, <<".","p","p","m">>,
    <<".","p","x","m">>, <<".","p","n","m">>,
    <<".","p","f","m">>,
    <<".","s","r">>, <<".","r","a","s">>,
    <<".","t","i","f","f">>, <<".","t","i","f">>,
    <<".","e","x","r">>,
    <<".","h","d","r">>, <<".","p","i","c">>
}

----------------------------------------------------------------------------
(* C1: a call on a directory none of whose entries has a recognized image  *)
(* extension fails with FileNotFoundError, whatever the output path and    *)
(* the codec argument are, before any frame is decoded or written.         *)
C1_NoImagesFails ==
    (PastCheck /\ Recognized = {}) =>
        /\ pc = "failed"
        /\ error = "FileNotFoundError"
        /\ idx = 0
        /\ opens = 0
        /\ fs = fs0

C1_Witness ==
    /\ pc = "failed"
    /\ error = "FileNotFoundError"
    /\ fs0.dir = {notes_txt, IMG1_PNG}
    /\ args.codec = XVID
    /\ OutputName = out_xyz

(* C2 as stated: with no codec argument and an output extension absent     *)
(* from the codec table, the call fails with ValueError for every input    *)
(* directory.                                                              *)
C2_UnsupportedForEveryDirectory ==
    (pc \in Terminal /\ args.codec = None /\ ~MappedExtension) =>
        (pc = "failed" /\ error = "ValueError")

(* C2 amended: with no codec argument and an output extension absent from  *)
(* the codec table, the call fails: with ValueError when the frame         *)
(* sequence is not empty, with FileNotFoundError when it is empty.         *)
C2_UnsupportedUnlessEmpty ==
    (pc \in Terminal /\ args.codec = None /\ ~MappedExtension) =>
        /\ pc = "failed"
        /\ error = IF Recognized = {} THEN "FileNotFoundError" ELSE "ValueError"
        /\ opens = 0

C2_Witness ==
    /\ pc = "failed"
    /\ error = "ValueError"
    /\ args.codec = None
    /\ OutputName = out_xyz
    /\ Recognized # {}

(* C3: every entry whose extension, compared case-insensitively, is one of *)
(* the image formats of the Image Extension Set is kept in the frame       *)
(* sequence.                                                               *)
C3_EveryImageFormatKept ==
    (pc # "list") =>
        \A e \in fs0.dir :
            Lower(SplitextExt(e)) \in ImageExtensionSet => e \in Range(input_files)

(* C4: a call that completes has handed to the video output exactly one    *)
(* frame per kept file name, frame k being the decoded image of the k-th   *)
(* kept name in ascending string order, whatever order the listing had.    *)
C4_FramesInSortedOrder ==
    (pc = "finalized") =>
        /\ Range(input_files) = Recognized
        /\ Len(input_files) = Cardinality(Recognized)
        /\ \A i, j \in 1..Len(input_files) :
              i < j => StrLess(input_files[i], input_files[j])
        /\ Len(fs.video.frames) = Len(input_files)
        /\ \A k \in 1..Len(input_files) :
              fs.video.frames[k] = Imread(input_files[k])

C4_Witness ==
    /\ pc = "finalized"
    /\ input_files = <<Z_JPG, b_bmp, c_jpg>>
    /\ fs.video.frames = <<<<"image", Z_JPG>>, <<"image", b_bmp>>, <<"image", c_jpg>>>>

(* C5: a codec argument that is given is the codec the output is opened    *)
(* with, for every output path; the call never fails with ValueError, and  *)
(* the codec table is not consulted even for a mapped extension.           *)
C5_ExplicitCodecWins ==
    (args.codec # None) =>
        /\ error # "ValueError"
        /\ PastCodec => codec = args.codec
        /\ out.state # "none" => out.fourcc = VideoWriter_fourcc(args.codec)

C5_Witness ==
    /\ pc = "finalized"
    /\ args.codec = XVID
    /\ OutputName = out_MP4
    /\ out.fourcc = 1145656920

(* C6: with no codec argument, output paths whose extensions differ only   *)
(* in letter case resolve to the same codec table entry, and each of the   *)
(* six table extensions, in any case, resolves without ValueError.         *)
C6_CaseInsensitiveLookup ==
    (args.codec = None) =>
        /\ MappedExtension => error # "ValueError"
        /\ PastCodec =>
              /\ \A e \in DOMAIN DEFAULT_CODEC :
                    SameButCase(Suffix(OutputName), e) => codec = DEFAULT_CODEC[e]
              /\ \A other \in OutNames :
                    SameButCase(Suffix(other), Suffix(OutputName))
                        => Resolve(None, other) = codec

C6_Witness ==
    /\ pc = "finalized"
    /\ args.codec = None
    /\ OutputName = out_MP4
    /\ codec = <<"m","p","4","v">>

(* C7 as stated: a second call with the same arguments ends as the first   *)
(* did, with the same error or the same frames in the output, whatever the *)
(* first call left behind.                                                 *)
C7_SecondCallSameOutcome ==
    (calls >= 2 /\ pc \in Terminal) => Outcome = prev.outcome

\* The kept entries of the input directory as the previous call found it.
RecognizedBefore == {e \in prev.fs0.dir : Lower(SplitextExt(e)) \in CV_IMAGE_FORMAT}

(* C7 amended: a second call with the same arguments ends as the first     *)
(* did, provided the first call added no kept entry to the input           *)
(* directory (its output file and the parent directory it creates are no   *)
(* entries of the input directory that the filter keeps).                  *)
C7_SecondCallSameOutcomeSameInput ==
    (calls >= 2 /\ pc \in Terminal /\ Recognized = RecognizedBefore /\ fs0.subdirs = prev.fs0.subdirs)
        => Outcome = prev.outcome

C7_Witness ==
    /\ calls = 2
    /\ pc = "finalized"
    /\ args.output_path = [parent |-> "input", name |-> out_MP4]
    /\ Recognized = RecognizedBefore
    /\ prev.outcome.result = "finalized"
    /\ Len(fs.video.frames) = 2
    /\ fs0.video.exists

(* C8: a call that fails does not end with the output stream still open:   *)
(* the stream is released on early failure too.                            *)
C8_ReleasedOnFailure ==
    (pc = "failed") => out.state # "open"

(* C9: in every call the stream is opened at most once, and only after the *)
(* frame sequence is non-empty, the codec is resolved and the first frame  *)
(* is decoded; frames are written only while the stream is open; a call    *)
(* that completes released the stream exactly once, after the last of its  *)
(* N writes, and a finished call writes, decodes, opens and releases no    *)
(* more.                                                                   *)
C9_StreamState ==
    /\ opens <= 1
    /\ releases <= 1
    /\ (out.state = "none") = (opens = 0)
    /\ (out.state = "released") = (releases = 1)
    /\ out.state # "none" =>
          /\ input_files # <<>>
          /\ fourcc # NoFourcc
          /\ out.fourcc = fourcc
          /\ idx >= 1
    /\ pc = "finalized" =>
          /\ out.state = "released"
          /\ idx = Len(input_files)
          /\ Len(fs.video.frames) = Len(input_files)
    /\ pc = "failed" => releases = 0

C9_StreamSteps ==
    /\ Len(fs'.video.frames) > Len(fs.video.frames) =>
          (out.state = "open" /\ out'.state = "open")
    /\ releases' > releases => Len(fs.video.frames) = Len(input_files)
    /\ (pc \in Terminal /\ calls' = calls) => UNCHANGED <<fs, idx, out, opens, releases>>

C9_StreamLifecycle == [](C9_StreamState) /\ [][C9_StreamSteps]_vars

C9_Witness ==
    /\ pc = "finalized"
    /\ opens = 1
    /\ releases = 1
    /\ out.state = "released"
    /\ Len(fs.video.frames) = 3

(* C10: a call that fails with FileNotFoundError or with ValueError has    *)
(* left the filesystem as it found it: no parent directory and no output   *)
(* file was created, no image was decoded and no stream was opened.        *)
C10_ValidationBeforeEffects ==
    (error \in {"FileNotFoundError", "ValueError"}) =>
        /\ fs = fs0
        /\ idx = 0
        /\ opens = 0
        /\ out = NoWriter

C10_Witness ==
    /\ pc = "failed"
    /\ error = "ValueError"
    /\ args.output_path = [parent |-> "sub", name |-> out_xyz]
    /\ SubName \notin fs.dir
    /\ ~fs.video.exists

====
